---- MODULE Spec2Model ----
\* A model of backup.js: the retry wrapper (withRetry), the git subprocess
\* runner (gitCmd), the paginated lister (getAllRepositories), the per-repository
\* synchronizer (backupRepository) and the main fan-out.
\*
\* Granularity: one action per event-loop callback.  A callback and the promise
\* continuations (microtasks) it releases run to completion before any other
\* callback, so each action covers the handler and the code after the `await`
\* it resumes, up to the next suspension point.
EXTENDS Integers, Sequences, FiniteSets, TLC

\* ---------------------------------------------------------------- bounds
\* maxRetries ranges over 1..MaxAttempts, the endpoint serves up to MaxPages
\* pages holding up to MaxRepos descriptors in all, and MaxWork bounds
\* maxRetries times the number of descriptors (the attempts that one kind of
\* git command can take in a run).
MaxAttempts == 3
MaxPages == 2
MaxRepos == 2
MaxWork == 4
\* Each upstream repository changes at most MaxVersion times.
MaxVersion == 1
\* In the runs that follow one another maxRetries ranges over
\* 1..MaxRunAttempts.
MaxRunAttempts == 2

\* ------------------------------------------------------- program constants
retryBaseMs == 1000

Slugs == {"a", "b"}
GitFailures == {"nonzero", "spawnerr", "timeout"}
HttpFailures == {"status", "network"}

VARIABLES
  maxRetries,   \* config.maxRetries
  pages,        \* the remote endpoint: page u holds pages[u], next is u+1 or null
  upstream,     \* per slug: the version of the repository on the remote
  start,        \* fs and upstream as they were when this process started
  prev,         \* what the previous process of this backup directory did
  fs,           \* <backupDir>/<slug>.git per slug: "absent", "partial", "mirror"
  content,      \* per slug: the upstream version the local copy holds
  pc,           \* main: "listing", "waiting", "completed", "fatal", "exited"
  exitCode,     \* the process exit code, -1 while the process runs
  url,          \* getAllRepositories' url: a page number, 0 for null
  acc,          \* getAllRepositories' local repos array
  repos,        \* main's repos (assigned when getAllRepositories returns)
  http,         \* the axios promise of the current attempt
  lretry,       \* withRetry frame of the current page fetch
  tpc,          \* per task: "check", "seturl", "fetch", "clone", "ok", "failed"
  retry,        \* per task: withRetry frame of the current git command
  child,        \* per task: the child of the latest gitCmd call
  timer,        \* per task: the timeout timer of the latest gitCmd call
  outcome,      \* per task: the promise of the latest gitCmd call
  stale,        \* per task: killed children of earlier calls not yet closed
  cmds,         \* per task: the git subcommands spawned so far, in order
  results,      \* per task: "ok" or "fail" per settled gitCmd call, in order
  wrapped,      \* per task: the promise backupRepository(r).catch(...)
  failedLog     \* slugs logged by "Backup failed for <slug>", in order

vars == <<maxRetries, pages, upstream, start, prev, fs, content, pc, exitCode,
          url, acc, repos, http, lretry, tpc, retry, child, timer, outcome,
          stale, cmds, results, wrapped, failedLog>>

\* What no step of a running process changes: the configuration, the remote
\* and the record of earlier processes.
cfgVars == <<maxRetries, pages, upstream, start, prev>>
listVars == <<url, acc, repos, http, lretry>>
gitVars == <<child, timer, outcome>>

\* process.exit has not been called
Alive == exitCode = -1

\* ------------------------------------------------------------ withRetry
\* A frame: the loop counter i, the local err, where the call stands
\* ("try": fn() is pending, "sleep": in delay(wait), "returned", "thrown"),
\* and the trace of what the call did: <<"call", i>> per invocation of fn,
\* <<"sleep", ms>> per delay.
NoRetry == [i |-> 0, err |-> "none", st |-> "idle", log |-> << >>]

\* const wait = config.retryBaseMs*(2**(i-1))
BackoffOffByOne(i) == retryBaseMs * (2 ^ i)
Backoff(i) == retryBaseMs * (2 ^ (i - 1))

\* for(...; i<=config.maxRetries; ...) { try { return await fn(); } ... } throw err
RetryLoopOneMore(r) ==
  IF r.i <= maxRetries + 1
    THEN [r EXCEPT !.st = "try", !.log = Append(@, <<"call", r.i>>)]
    ELSE [r EXCEPT !.st = "thrown"]
RetryLoop(r) ==
  IF r.i <= maxRetries
    THEN [r EXCEPT !.st = "try", !.log = Append(@, <<"call", r.i>>)]
    ELSE [r EXCEPT !.st = "thrown"]

RetryStart == RetryLoop([i |-> 1, err |-> "none", st |-> "idle", log |-> << >>])

\* return await fn()  -- fn() fulfilled; the local err goes out of scope
RetryReturn(r) == [r EXCEPT !.st = "returned", !.err = "none"]

\* catch(e): err = e; sleep if i < maxRetries, else i++ and leave the loop
RetryFailKeepsFirst(r, e) ==
  LET c == [r EXCEPT !.err = IF @ = "none" THEN e ELSE @] IN
  IF c.i < maxRetries
    THEN [c EXCEPT !.st = "sleep", !.log = Append(@, <<"sleep", Backoff(c.i)>>)]
    ELSE RetryLoop([c EXCEPT !.i = @ + 1])
RetryFail(r, e) ==
  LET c == [r EXCEPT !.err = e] IN
  IF c.i < maxRetries
    THEN [c EXCEPT !.st = "sleep", !.log = Append(@, <<"sleep", Backoff(c.i)>>)]
    ELSE RetryLoop([c EXCEPT !.i = @ + 1])

\* delay(wait) resolved: i++ and the loop test
RetryWakeSkipsAttempt(r) == RetryLoop([r EXCEPT !.i = @ + 2])
RetryWake(r) == RetryLoop([r EXCEPT !.i = @ + 1])

\* --------------------------------------------------------------- gitCmd
\* resolve()/reject(): a promise settles once, later calls are ignored
SettleOverwrites(p, v) == v
Settle(p, v) == IF p = "pending" THEN v ELSE p

\* clearTimeout(to)
ClearTimeoutNoop(t) == t
ClearTimeout(t) == IF t = "armed" THEN "cleared" ELSE t

\* p.kill('SIGKILL'): only a live child is affected
Kill(c) == IF c = "running" THEN "killed" ELSE c

\* code===0 ? resolve() : reject(new Error(... exited code))
CloseResult(code) == IF code = 0 THEN "ok" ELSE "nonzero"

\* ------------------------------------------------------ getAllRepositories
\* data.next of page u
NextOf(u) == IF u < Len(pages) THEN u + 1 ELSE 0

\* while(url) { ... await withRetry(() => axios.get(url, ...)) ... }: the
\* retry is inside the loop body, so a new attempt asks for the url of the
\* current iteration and the array built so far stays as it is.
RetryPageFromScratch(u, a) == <<1, << >> >>
RetryPage(u, a) == <<u, a>>

\* repos.push(...data.values)
PushDedup(a, vs) == a \o SelectSeq(vs, LAMBDA v : \A k \in 1..Len(a) : a[k] # v)
Push(a, vs) == a \o vs

\* A page fetch threw: nothing catches it in getAllRepositories, so main's
\* `const repos` is never assigned and the accumulated array is dropped.
ThrownKeepsPartial(a) == a
Thrown(a) == << >>

\* ------------------------------------------------------------------ main
\* .catch(e => logger.error(...)): the handler returns, the promise fulfils
CatchRethrows(e) == "rejected"
Catch(e) == "fulfilled"

\* Promise.all over the wrapped promises
PromiseAny(w) ==
  IF \E t \in DOMAIN w : w[t] = "fulfilled" THEN "fulfilled"
  ELSE IF \A t \in DOMAIN w : w[t] = "rejected" THEN "rejected"
  ELSE "pending"
PromiseAll(w) ==
  IF \E t \in DOMAIN w : w[t] = "rejected" THEN "rejected"
  ELSE IF \A t \in DOMAIN w : w[t] = "fulfilled" THEN "fulfilled"
  ELSE "pending"

\* await Promise.all(...): the try block goes on to logger.end() and exit 0,
\* a rejection goes to the catch block and exit 1
AwaitAll(w) ==
  CASE PromiseAll(w) = "fulfilled" -> "completed"
    [] PromiseAll(w) = "rejected" -> "fatal"
    [] OTHER -> "waiting"

\* logger.on('finish', () => process.exit(0)) in the try block,
\* process.exit(1) in the catch block
ExitCodeAlwaysZero(p) == 0
ExitCodeOf(p) == IF p = "completed" THEN 0 ELSE 1

\* e => logger.error(`Backup failed for ${r.slug}: ...`) runs on rejection only
FailedLogAlways(res, log, slug) == Append(log, slug)
FailedLogAfter(res, log, slug) == IF res = "ok" THEN log ELSE Append(log, slug)

\* ---------------------------------------------------------------- inputs
RECURSIVE TotalLen(_)
TotalLen(c) == IF c = << >> THEN 0 ELSE Len(Head(c)) + TotalLen(Tail(c))

Lists == UNION {[1..m -> Slugs] : m \in 0..MaxRepos}
\* A page that names a next page holds at least one descriptor; the last
\* page may be empty.
PageChains ==
  {c \in UNION {[1..p -> Lists] : p \in 1..MaxPages} :
     /\ TotalLen(c) <= MaxRepos
     /\ \A k \in 1..(Len(c) - 1) : c[k] # << >>}

\* The record of a previous process when there was none.
NoRun == [start |-> [fs |-> [s \in Slugs |-> "absent"],
                     upstream |-> [s \in Slugs |-> 0]],
          repos |-> << >>, cmds |-> << >>, results |-> << >>,
          content |-> [s \in Slugs |-> 0]]

\* The main function has run up to its first suspension point: the first
\* page request of getAllRepositories is in flight.
InitWith(ns, chains) ==
  /\ maxRetries \in ns
  /\ pages \in chains
  /\ upstream = [s \in Slugs |-> 0]
  /\ fs \in [Slugs -> {"absent", "mirror"}]
  /\ content = [s \in Slugs |-> 0]
  /\ start = [fs |-> fs, upstream |-> upstream]
  /\ prev = NoRun
  /\ pc = "listing"
  /\ exitCode = -1
  /\ url = 1
  /\ acc = << >>
  /\ repos = << >>
  /\ http = "pending"
  /\ lretry = RetryStart
  /\ tpc = << >>
  /\ retry = << >>
  /\ child = << >>
  /\ timer = << >>
  /\ outcome = << >>
  /\ stale = << >>
  /\ cmds = << >>
  /\ results = << >>
  /\ wrapped = << >>
  /\ failedLog = << >>

Init ==
  /\ InitWith(1..MaxAttempts, PageChains)
  /\ maxRetries * TotalLen(pages) <= MaxWork

Tasks == DOMAIN tpc

\* ------------------------------------------------- getAllRepositories steps
\* The page request is answered and data.next names another page.
HttpOkNext ==
  /\ pc = "listing" /\ lretry.st = "try" /\ Alive
  /\ NextOf(url) # 0
  /\ acc' = Push(acc, pages[url])
  /\ url' = NextOf(url)
  /\ lretry' = RetryStart
  /\ http' = "pending"
  /\ UNCHANGED <<cfgVars, fs, content, pc, exitCode, repos, tpc, retry,
                 gitVars, stale, cmds, results, wrapped, failedLog>>

\* The page request is answered with no next: getAllRepositories returns and
\* main maps backupRepository over repos; every task runs to its
\* `await fs.pathExists(target)`, then main awaits Promise.all.
HttpOkLast ==
  /\ pc = "listing" /\ lretry.st = "try" /\ Alive
  /\ NextOf(url) = 0
  /\ acc' = Push(acc, pages[url])
  /\ url' = 0
  /\ lretry' = RetryReturn(lretry)
  /\ http' = "ok"
  /\ repos' = acc'
  /\ tpc' = [t \in 1..Len(acc') |-> "check"]
  /\ retry' = [t \in 1..Len(acc') |-> NoRetry]
  /\ child' = [t \in 1..Len(acc') |-> "none"]
  /\ timer' = [t \in 1..Len(acc') |-> "none"]
  /\ outcome' = [t \in 1..Len(acc') |-> "none"]
  /\ stale' = [t \in 1..Len(acc') |-> 0]
  /\ cmds' = [t \in 1..Len(acc') |-> << >>]
  /\ results' = [t \in 1..Len(acc') |-> << >>]
  /\ wrapped' = [t \in 1..Len(acc') |-> "pending"]
  /\ pc' = AwaitAll(wrapped')
  /\ UNCHANGED <<cfgVars, fs, content, exitCode, failedLog>>

\* The page request fails: withRetry's catch; on the last attempt the error
\* leaves getAllRepositories and reaches main's catch block.
HttpFail(e) ==
  /\ pc = "listing" /\ lretry.st = "try" /\ Alive
  /\ http' = e
  /\ lretry' = RetryFail(lretry, e)
  /\ pc' = IF lretry'.st = "thrown" THEN "fatal" ELSE pc
  /\ repos' = IF lretry'.st = "thrown" THEN Thrown(acc) ELSE repos
  /\ UNCHANGED <<cfgVars, fs, content, exitCode, url, acc, tpc, retry, gitVars,
                 stale, cmds, results, wrapped, failedLog>>

\* delay(wait) of the page fetch resolves: the next attempt is issued.
ListWake ==
  /\ pc = "listing" /\ lretry.st = "sleep" /\ Alive
  /\ lretry' = RetryWake(lretry)
  /\ http' = IF lretry'.st = "try" THEN "pending" ELSE http
  /\ pc' = IF lretry'.st = "thrown" THEN "fatal" ELSE pc
  /\ repos' = IF lretry'.st = "thrown" THEN Thrown(acc) ELSE repos
  /\ url' = RetryPage(url, acc)[1]
  /\ acc' = RetryPage(url, acc)[2]
  /\ UNCHANGED <<cfgVars, fs, content, exitCode, tpc, retry, gitVars,
                 stale, cmds, results, wrapped, failedLog>>

\* logger 'finish': process.exit(0) after the try block, process.exit(1)
\* after the catch block.
ExitFromTryOnly ==
  /\ pc = "completed"
  /\ exitCode' = ExitCodeOf(pc)
  /\ pc' = "exited"
  /\ UNCHANGED <<cfgVars, fs, content, listVars, tpc, retry, gitVars, stale,
                 cmds, results, wrapped, failedLog>>
Exit ==
  /\ pc \in {"completed", "fatal"}
  /\ exitCode' = ExitCodeOf(pc)
  /\ pc' = "exited"
  /\ UNCHANGED <<cfgVars, fs, content, listVars, tpc, retry, gitVars, stale,
                 cmds, results, wrapped, failedLog>>

\* ------------------------------------------------------- backupRepository
\* gitCmd(args, cwd) called from withRetry's fn(): spawn, setTimeout and the
\* two once-handlers.  was is the previous child of this task.
SpawnGit(t, cmd, r, was) ==
  /\ retry' = [retry EXCEPT ![t] = r]
  /\ tpc' = [tpc EXCEPT ![t] = cmd]
  /\ child' = [child EXCEPT ![t] = "running"]
  /\ timer' = [timer EXCEPT ![t] = "armed"]
  /\ outcome' = [outcome EXCEPT ![t] = "pending"]
  /\ stale' = [stale EXCEPT ![t] = IF was = "killed" THEN @ + 1 ELSE @]
  /\ cmds' = [cmds EXCEPT ![t] = Append(@, cmd)]
  /\ UNCHANGED <<pc, wrapped, failedLog>>

\* backupRepository(r) settles with res ("ok" or "failed"); the .catch handler
\* logs a failure; Promise.all may settle and main go on.
TaskSettles(t, res, r, c1, tm1, o1) ==
  /\ retry' = [retry EXCEPT ![t] = r]
  /\ tpc' = [tpc EXCEPT ![t] = res]
  /\ child' = [child EXCEPT ![t] = c1]
  /\ timer' = [timer EXCEPT ![t] = tm1]
  /\ outcome' = [outcome EXCEPT ![t] = o1]
  /\ wrapped' = [wrapped EXCEPT ![t] =
                   IF res = "ok" THEN "fulfilled" ELSE Catch(r.err)]
  /\ failedLog' = FailedLogAfter(res, failedLog, repos[t])
  /\ pc' = IF pc = "waiting" THEN AwaitAll(wrapped') ELSE pc
  /\ UNCHANGED <<stale, cmds>>

\* withRetry is in delay(wait)
TaskSleeps(t, r, c1, tm1, o1) ==
  /\ retry' = [retry EXCEPT ![t] = r]
  /\ child' = [child EXCEPT ![t] = c1]
  /\ timer' = [timer EXCEPT ![t] = tm1]
  /\ outcome' = [outcome EXCEPT ![t] = o1]
  /\ UNCHANGED <<pc, tpc, stale, cmds, wrapped, failedLog>>

\* withRetry(() => gitCmd(args, cwd), desc): the closure holds the args of
\* the command chosen when the call was made.
ClosureCmdRechecks(t) ==
  IF tpc[t] = "clone" /\ fs[repos[t]] # "absent" THEN "seturl" ELSE tpc[t]
ClosureCmd(t) == tpc[t]

\* if (await fs.pathExists(target)) { set-url; fetch } else { clone }
BranchAlwaysClone(exists) == "clone"
Branch(exists) == IF exists THEN "seturl" ELSE "clone"

\* The entry of results for a gitCmd promise left as o1 by an event.
Record(t, o1) ==
  IF outcome[t] = "pending" /\ o1 # "pending"
    THEN [results EXCEPT ![t] = Append(@, IF o1 = "ok" THEN "ok" ELSE "fail")]
    ELSE results

\* A successful `git clone --mirror` or `git fetch --all --prune` leaves the
\* local copy at the version the remote holds.
Synced(t, code) ==
  IF code = 0 /\ tpc[t] \in {"clone", "fetch"}
    THEN [content EXCEPT ![repos[t]] = upstream[repos[t]]]
    ELSE content

\* Where the task goes once its withRetry frame is r.
AfterFrameGoesOn(t, r, c1, tm1, o1) ==
  CASE r.st = "try" -> SpawnGit(t, ClosureCmd(t), r, c1)
    [] r.st = "sleep" -> TaskSleeps(t, r, c1, tm1, o1)
    [] r.st \in {"thrown", "returned"} ->
         IF tpc[t] = "seturl"
           THEN SpawnGit(t, "fetch", RetryStart, c1)
           ELSE TaskSettles(t, IF r.st = "thrown" THEN "failed" ELSE "ok",
                            r, c1, tm1, o1)
AfterFrame(t, r, c1, tm1, o1) ==
  CASE r.st = "try" -> SpawnGit(t, ClosureCmd(t), r, c1)
    [] r.st = "sleep" -> TaskSleeps(t, r, c1, tm1, o1)
    [] r.st = "thrown" -> TaskSettles(t, "failed", r, c1, tm1, o1)
    [] r.st = "returned" ->
         IF tpc[t] = "seturl"
           THEN SpawnGit(t, "fetch", RetryStart, c1)
           ELSE TaskSettles(t, "ok", r, c1, tm1, o1)

\* An event's handlers leave the child, the timer and the promise as c1, tm1
\* and o1; if the promise settled just now, the code awaiting it resumes.
Handlers(t, c1, tm1, o1) ==
  IF outcome[t] = "pending" /\ o1 # "pending"
    THEN AfterFrame(t, IF o1 = "ok" THEN RetryReturn(retry[t])
                                    ELSE RetryFail(retry[t], o1),
                    c1, tm1, o1)
    ELSE /\ child' = [child EXCEPT ![t] = c1]
         /\ timer' = [timer EXCEPT ![t] = tm1]
         /\ outcome' = [outcome EXCEPT ![t] = o1]
         /\ UNCHANGED <<pc, tpc, retry, stale, cmds, wrapped, failedLog>>

\* What a clone child that did not succeed leaves at the target path.
Leftover(t, left) ==
  IF tpc[t] = "clone" /\ left /\ fs[repos[t]] = "absent"
    THEN [fs EXCEPT ![repos[t]] = "partial"]
    ELSE fs

\* fs.pathExists(target) resolved: the branch is chosen and the first git
\* command is spawned.
PathChecked(t) ==
  /\ Alive /\ tpc[t] = "check"
  /\ SpawnGit(t, Branch(fs[repos[t]] # "absent"), RetryStart, child[t])
  /\ UNCHANGED <<cfgVars, fs, content, exitCode, listVars, results>>

\* 'close' with an exit code, the child having run.
ChildClose(t, code, left) ==
  /\ Alive /\ child[t] = "running"
  /\ Handlers(t, IF code = 0 THEN "exited0" ELSE "exitedN",
              ClearTimeout(timer[t]),
              Settle(outcome[t], CloseResult(code)))
  /\ fs' = IF code = 0 /\ tpc[t] = "clone"
             THEN [fs EXCEPT ![repos[t]] = "mirror"]
             ELSE Leftover(t, code # 0 /\ left)
  /\ content' = Synced(t, code)
  /\ results' = Record(t, Settle(outcome[t], CloseResult(code)))
  /\ UNCHANGED <<cfgVars, exitCode, listVars>>

\* The child could not be started: 'error', then 'close' with a negative
\* code, both emitted in the same tick.
ChildError(t) ==
  /\ Alive /\ child[t] = "running" /\ timer[t] = "armed"
  /\ Handlers(t, "errored",
              ClearTimeout(ClearTimeout(timer[t])),
              Settle(Settle(outcome[t], "spawnerr"), CloseResult(-2)))
  /\ results' = Record(t, Settle(Settle(outcome[t], "spawnerr"),
                                 CloseResult(-2)))
  /\ UNCHANGED <<cfgVars, fs, content, exitCode, listVars>>

\* The timeout callback: p.kill('SIGKILL'); reject(... timed out).
TimerFire(t, left) ==
  /\ Alive /\ timer[t] = "armed"
  /\ Handlers(t, Kill(child[t]), "fired", Settle(outcome[t], "timeout"))
  /\ fs' = Leftover(t, left /\ child[t] = "running")
  /\ results' = Record(t, Settle(outcome[t], "timeout"))
  /\ UNCHANGED <<cfgVars, content, exitCode, listVars>>

\* 'close' of the child killed by the latest call's timeout.
KilledClose(t) ==
  /\ Alive /\ child[t] = "killed"
  /\ Handlers(t, "reaped", ClearTimeout(timer[t]),
              Settle(outcome[t], CloseResult(-1)))
  /\ results' = Record(t, Settle(outcome[t], CloseResult(-1)))
  /\ UNCHANGED <<cfgVars, fs, content, exitCode, listVars>>

\* 'close' of a child killed by an earlier call's timeout: its timer has
\* fired and its promise is rejected, the handler changes nothing.
StaleClose(t) ==
  /\ Alive /\ stale[t] > 0
  /\ stale' = [stale EXCEPT ![t] = @ - 1]
  /\ UNCHANGED <<cfgVars, fs, content, pc, exitCode, listVars, tpc, retry,
                 gitVars, cmds, results, wrapped, failedLog>>

\* delay(wait) of a git command resolves: the next attempt is spawned.
TaskWake(t) ==
  /\ Alive /\ retry[t].st = "sleep"
  /\ AfterFrame(t, RetryWake(retry[t]), child[t], timer[t], outcome[t])
  /\ UNCHANGED <<cfgVars, fs, content, exitCode, listVars, results>>

Next ==
  \/ HttpOkNext
  \/ HttpOkLast
  \/ \E e \in HttpFailures : HttpFail(e)
  \/ ListWake
  \/ Exit
  \/ \E t \in Tasks : PathChecked(t)
  \/ \E t \in Tasks, code \in {0, 1}, left \in BOOLEAN : ChildClose(t, code, left)
  \/ \E t \in Tasks : ChildError(t)
  \/ \E t \in Tasks, left \in BOOLEAN : TimerFire(t, left)
  \/ \E t \in Tasks : KilledClose(t)
  \/ \E t \in Tasks : StaleClose(t)
  \/ \E t \in Tasks : TaskWake(t)

Spec == Init /\ [][Next]_vars

\* ------------------------------------------------------------ scheduling
\* What the event loop guarantees: the callback that a task or main is
\* waiting for runs when it is due -- a timer that is armed fires (the git
\* timeout, the backoff delay), the file-system check completes, the 'finish'
\* handler of the logger runs.  Nothing is assumed of the children: one may
\* never close.  Every HTTP request is assumed to settle.
TaskFair(t) ==
  /\ WF_vars(t \in Tasks /\ PathChecked(t))
  /\ WF_vars(t \in Tasks /\ \E left \in BOOLEAN : TimerFire(t, left))
  /\ WF_vars(t \in Tasks /\ TaskWake(t))

ListFair ==
  /\ WF_vars(HttpOkNext \/ HttpOkLast \/ \E e \in HttpFailures : HttpFail(e))
  /\ WF_vars(ListWake)
  /\ WF_vars(Exit)

FairSpec == Spec /\ ListFair /\ \A t \in 1..MaxRepos : TaskFair(t)

\* ------------------------------------------------------- successive runs
\* The process has exited and the script is started again on the same backup
\* directory, with the same configuration and against the same workspace.
Restart ==
  /\ pc = "exited"
  /\ prev' = [start |-> start, repos |-> repos, cmds |-> cmds,
              results |-> results, content |-> content]
  /\ start' = [fs |-> fs, upstream |-> upstream]
  /\ pc' = "listing"
  /\ exitCode' = -1
  /\ url' = 1
  /\ acc' = << >>
  /\ repos' = << >>
  /\ http' = "pending"
  /\ lretry' = RetryStart
  /\ tpc' = << >>
  /\ retry' = << >>
  /\ child' = << >>
  /\ timer' = << >>
  /\ outcome' = << >>
  /\ stale' = << >>
  /\ cmds' = << >>
  /\ results' = << >>
  /\ wrapped' = << >>
  /\ failedLog' = << >>
  /\ UNCHANGED <<maxRetries, pages, upstream, fs, content>>

\* Somebody pushes to a repository of the workspace.
UpstreamPush(s) ==
  /\ \E k \in 1..Len(pages) : \E j \in 1..Len(pages[k]) : pages[k][j] = s
  /\ upstream[s] < MaxVersion
  /\ upstream' = [upstream EXCEPT ![s] = @ + 1]
  /\ UNCHANGED <<maxRetries, pages, start, prev, fs, content, pc, exitCode,
                 listVars, tpc, retry, gitVars, stale, cmds, results, wrapped,
                 failedLog>>

\* Runs of the script over one repository, one after the other.
InitRuns ==
  /\ InitWith(1..MaxRunAttempts, PageChains)
  /\ TotalLen(pages) = 1

NextRuns ==
  \/ Next
  \/ Restart
  \/ \E s \in Slugs : UpstreamPush(s)

SpecRuns == InitRuns /\ [][NextRuns]_vars

\* =================================================================== claims
\* The trace of a withRetry call that has invoked fn k times and is not
\* sleeping: attempt 1, sleep base, attempt 2, sleep 2*base, ..., attempt k.
ExpLog(k) ==
  [j \in 1..(2 * k - 1) |->
     IF j % 2 = 1 THEN <<"call", (j + 1) \div 2>>
                  ELSE <<"sleep", retryBaseMs * 2 ^ ((j \div 2) - 1)>>]

\* How many entries of sequence q equal x.
Count(q, x) == Cardinality({k \in 1..Len(q) : q[k] = x})

Settled(t) == tpc[t] \in {"ok", "failed"}

\* C1: a withRetry call whose operation fails on every attempt has invoked it
\* exactly maxRetries times, slept exactly maxRetries-1 times, the i-th sleep
\* of retryBaseMs * 2^(i-1) between attempts i and i+1 and none after the
\* last, and throws the failure of the last attempt.
C1_ExhaustedRetry ==
  /\ lretry.st = "thrown" =>
       /\ lretry.log = ExpLog(maxRetries)
       /\ http \in HttpFailures /\ lretry.err = http
  /\ \A t \in Tasks : retry[t].st = "thrown" =>
       /\ retry[t].log = ExpLog(maxRetries)
       /\ Count(cmds[t], cmds[t][Len(cmds[t])]) = maxRetries
       /\ outcome[t] \in GitFailures /\ retry[t].err = outcome[t]

C1_Witness ==
  /\ maxRetries = MaxAttempts
  /\ \E t \in Tasks : retry[t].st = "thrown" /\ retry[t].err = "spawnerr"
                      /\ stale[t] > 0

\* C2: a withRetry call whose operation first succeeds on attempt k has
\* invoked it exactly k times (k <= maxRetries) with exactly k-1 sleeps, the
\* last entry of its trace being attempt k, and it carries that attempt's
\* result.
C2_SuccessStopsRetry ==
  /\ lretry.st = "returned" =>
       /\ lretry.i \in 1..maxRetries
       /\ lretry.log = ExpLog(lretry.i)
       /\ http = "ok" /\ repos = acc
  /\ \A t \in Tasks : retry[t].st = "returned" =>
       /\ retry[t].i \in 1..maxRetries
       /\ retry[t].log = ExpLog(retry[t].i)
       /\ Count(cmds[t], cmds[t][Len(cmds[t])]) = retry[t].i
       /\ outcome[t] = "ok" /\ tpc[t] = "ok"

C2_Witness ==
  /\ lretry.st = "returned" /\ lretry.i = 2
  /\ \E t \in Tasks : retry[t].st = "returned" /\ retry[t].i = MaxAttempts

\* C3: the promise of a gitCmd call holds exactly the outcome of the first
\* event of the call: pending while the child runs, success after close 0,
\* NonZeroExit after close with another code, SpawnError after 'error', Timeout
\* after the timer (the child then killed); events that follow leave it as is.
C3_OneOutcome ==
  \A t \in Tasks :
    /\ child[t] = "none" <=> outcome[t] = "none"
    /\ child[t] = "running" <=> outcome[t] = "pending"
    /\ child[t] = "exited0" <=> outcome[t] = "ok"
    /\ child[t] = "exitedN" <=> outcome[t] = "nonzero"
    /\ child[t] = "errored" <=> outcome[t] = "spawnerr"
    /\ child[t] \in {"killed", "reaped"} <=> outcome[t] = "timeout"
    /\ outcome[t] = "timeout" => timer[t] = "fired"

C3_Witness ==
  \E t \in Tasks : child[t] = "reaped" /\ outcome[t] = "timeout"
                   /\ retry[t].st = "sleep"

\* C4: once a gitCmd call has ended by 'close' or by 'error', its timer is
\* cleared: it has not fired and cannot, the child was not killed and the
\* outcome is not Timeout.
C4_TimerInert ==
  \A t \in Tasks :
    child[t] \in {"exited0", "exitedN", "errored"} =>
      /\ timer[t] = "cleared"
      /\ outcome[t] # "timeout"
      /\ ~ ENABLED TimerFire(t, TRUE)
      /\ ~ ENABLED TimerFire(t, FALSE)

C4_Witness ==
  \E t \in Tasks : child[t] = "errored" /\ timer[t] = "cleared"
                   /\ retry[t].st = "sleep"

\* C5: the existence check made when backupRepository starts fixes the
\* commands of the whole call.  Path absent: the first spawn is clone and
\* every later spawn is clone, at most maxRetries in all, whatever the path
\* has become.  Path present: the first spawn is set-url, then set-url or
\* fetch, never set-url after a fetch and never clone.
C5_Step(t) ==
  /\ tpc[t] = "check" /\ tpc'[t] # "check" =>
       cmds'[t] = IF fs[repos[t]] = "absent" THEN <<"clone">> ELSE <<"seturl">>
  /\ tpc[t] # "check" =>
       /\ cmds[t] # << >>
       /\ \/ cmds'[t] = cmds[t]
          \/ /\ cmds[t][1] = "clone"
             /\ cmds'[t] = Append(cmds[t], "clone")
             /\ Len(cmds'[t]) <= maxRetries
          \/ /\ cmds[t][1] = "seturl"
             /\ \E c \in {"seturl", "fetch"} : cmds'[t] = Append(cmds[t], c)
             /\ cmds[t][Len(cmds[t])] = "fetch" => cmds'[t][Len(cmds'[t])] = "fetch"
             /\ Count(cmds'[t], "seturl") <= maxRetries
             /\ Count(cmds'[t], "fetch") <= maxRetries

C5_BranchFixedByCheck == [][\A t \in Tasks : C5_Step(t)]_vars

C5_Witness ==
  \E t \in Tasks : /\ Len(cmds[t]) >= 2 /\ cmds[t][1] = "clone"
                   /\ fs[repos[t]] = "partial" /\ child[t] = "running"

\* The steps task t can take.
TaskNext(t) ==
  \/ PathChecked(t)
  \/ \E code \in {0, 1}, left \in BOOLEAN : ChildClose(t, code, left)
  \/ ChildError(t)
  \/ \E left \in BOOLEAN : TimerFire(t, left)
  \/ TaskWake(t)

\* C6: once listing has returned there is one task per listed repository, and
\* whenever a task has failed, every other task has settled or is running
\* undisturbed: the process is alive, main still waits for it and the task has
\* a step to take; the run does not turn fatal.
C6_FailureIsolation ==
  /\ lretry.st = "returned" => Tasks = 1..Len(repos)
  /\ \A t \in Tasks : tpc[t] = "failed" =>
       /\ pc # "fatal" /\ exitCode # 1
       /\ \A s \in Tasks \ {t} :
            \/ Settled(s)
            \/ pc = "waiting" /\ Alive /\ ENABLED TaskNext(s)

C6_Witness ==
  /\ Len(repos) = 2
  /\ tpc[1] = "failed" /\ tpc[2] = "ok" /\ failedLog = <<repos[1]>>
  /\ exitCode = 0

\* C7: the process exits with 0 exactly when listing returned, however many
\* tasks failed, and with 1 exactly when listing threw.
C7_ExitCode ==
  /\ exitCode \in {-1, 0, 1}
  /\ exitCode = 0 <=> pc = "exited" /\ lretry.st = "returned"
  /\ exitCode = 1 <=> pc = "exited" /\ lretry.st = "thrown"
  /\ pc = "exited" => exitCode # -1

C7_Witness ==
  /\ exitCode = 0 /\ Len(repos) = 2
  /\ \A t \in Tasks : tpc[t] = "failed"

\* C8: when a page fetch has failed on every attempt, main holds no
\* descriptors (whatever was accumulated), no task exists, no git command was
\* spawned, and the run is on the fatal path, exiting with 1.
C8_ListingFailure ==
  lretry.st = "thrown" =>
    /\ repos = << >>
    /\ Tasks = {} /\ cmds = << >> /\ child = << >>
    /\ pc \in {"fatal", "exited"}
    /\ exitCode \in {-1, 1}
    /\ ~ Alive <=> pc = "exited"

C8_Witness ==
  /\ lretry.st = "thrown" /\ acc # << >> /\ url = 2 /\ exitCode = 1

\* The pages' descriptor lists, concatenated in page order.
RECURSIVE Flatten(_)
Flatten(c) == IF c = << >> THEN << >> ELSE Head(c) \o Flatten(Tail(c))

\* C9: when listing returns, main's repos is the concatenation of all pages
\* in page order, each page in its own order, nothing dropped, reordered or
\* de-duplicated; its length is the sum of the page sizes.
C9_ListingConcat ==
  lretry.st = "returned" =>
    /\ repos = Flatten(pages)
    /\ Len(repos) = TotalLen(pages)
    /\ url = 0

C9_Witness ==
  /\ lretry.st = "returned" /\ Len(pages) = 2
  /\ repos = <<"b", "b">> /\ Len(pages[1]) = 1

\* C10: in a run whose listing returned, one task was started per listed
\* descriptor, and the failure log holds one entry per failed task, carrying
\* that task's slug, and no entry for a task that has not failed; when the run
\* completes every task has settled.
C10_Accounting ==
  lretry.st = "returned" =>
    /\ Cardinality(Tasks) = Len(repos)
    /\ Len(failedLog) = Cardinality({t \in Tasks : tpc[t] = "failed"})
    /\ \A s \in Slugs :
         Count(failedLog, s) =
           Cardinality({t \in Tasks : tpc[t] = "failed" /\ repos[t] = s})
    /\ pc \in {"completed", "exited"} => \A t \in Tasks : Settled(t)

C10_Witness ==
  /\ pc = "completed" /\ repos = <<"a", "b">>
  /\ tpc[1] = "ok" /\ tpc[2] = "failed" /\ failedLog = <<"b">>

\* Every gitCmd call recorded in rs succeeded.
AllOk(rs) == \A k \in 1..Len(rs) : rs[k] = "ok"

\* The previous process made one backupRepository call, on slug s, whose
\* target was a mirror when that process started, and every subprocess of the
\* call succeeded.
FirstCallClean(s) ==
  /\ prev.repos = <<s>>
  /\ prev.start.fs[s] = "mirror"
  /\ AllOk(prev.results[1])

\* C11: when backupRepository has run on a mirrored repository with every
\* subprocess succeeding, and runs again on it in the next process with every
\* subprocess succeeding and the remote unchanged since before the first
\* call, each of the two calls spawned set-url then fetch and nothing else
\* (no clone, two fetches in all), and the local copy holds after the second
\* call what it held after the first.
C11_UpdateIdempotent ==
  \A t \in Tasks :
    ( /\ FirstCallClean(repos[t])
      /\ Settled(t) /\ AllOk(results[t])
      /\ upstream[repos[t]] = prev.start.upstream[repos[t]] ) =>
        /\ prev.cmds[1] = <<"seturl", "fetch">>
        /\ cmds[t] = <<"seturl", "fetch">>
        /\ Count(prev.cmds[1] \o cmds[t], "clone") = 0
        /\ Count(prev.cmds[1] \o cmds[t], "fetch") = 2
        /\ fs[repos[t]] = "mirror"
        /\ content[repos[t]] = prev.content[repos[t]]

\* The first of the two calls brought the stale mirror up to date, the second
\* found nothing new.
C11_Witness ==
  /\ pc = "exited" /\ exitCode = 0 /\ repos = <<"a">>
  /\ FirstCallClean("a")
  /\ tpc[1] = "ok" /\ AllOk(results[1])
  /\ upstream["a"] = 1 /\ prev.start.upstream["a"] = 1
  /\ content["a"] = 1 /\ prev.content["a"] = 1

\* C12: a target path that exists holds a complete mirror, whatever runs and
\* clone attempts (succeeding, exiting non-zero, failing to spawn, killed on
\* timeout) came before, and set-url and fetch run on complete mirrors only.
C12_ExistsIsMirror ==
  /\ \A s \in Slugs : fs[s] # "absent" => fs[s] = "mirror"
  /\ \A t \in Tasks : tpc[t] \in {"seturl", "fetch"} => fs[repos[t]] = "mirror"

\* C13: no two tasks of a run have a git subprocess running on the same
\* target path at the same time.
C13_DisjointTargets ==
  \A t, u \in Tasks :
    (t # u /\ child[t] = "running" /\ child[u] = "running") =>
      repos[t] # repos[u]

\* C14: no task exists while listing is under way, tasks exist only for the
\* full list that listing returned, and when the run has completed (and when
\* it has exited with 0) every task has settled: none is awaiting a git
\* command, sleeping in a backoff or waiting for the path check.
C14_CompletionAfterAll ==
  /\ pc = "listing" => Tasks = {}
  /\ Tasks # {} =>
       /\ lretry.st = "returned" /\ url = 0
       /\ repos = Flatten(pages) /\ Tasks = 1..Len(repos)
  /\ (pc = "completed" \/ exitCode = 0) =>
       \A t \in Tasks :
         /\ Settled(t)
         /\ retry[t].st \in {"returned", "thrown"}
         /\ outcome[t] # "pending" /\ timer[t] # "armed"
         /\ child[t] # "running"
  /\ pc = "completed" => \A t \in Tasks : ~ ENABLED TaskNext(t)

C14_Witness ==
  /\ pc = "exited" /\ exitCode = 0 /\ Len(repos) = 2
  /\ tpc[1] = "failed" /\ child[1] = "killed" /\ Len(cmds[1]) = 2
  /\ tpc[2] = "ok" /\ Len(cmds[2]) = 2

\* C15: a task in the update branch has spawned a run of set-url attempts
\* followed by a run of fetch attempts and no clone, at most maxRetries of
\* each; the first fetch follows a set-url attempt that succeeded, all
\* set-url attempts before that one having failed; when the last allowed
\* set-url attempt has failed the task has failed with no fetch spawned; and
\* the attempt counter of the fetch call counts fetch attempts only.
C15_UpdateSequence ==
  \A t \in Tasks : (cmds[t] # << >> /\ cmds[t][1] = "seturl") =>
    LET a == Count(cmds[t], "seturl")
        b == Count(cmds[t], "fetch")
    IN /\ \A k \in 1..Len(cmds[t]) :
            cmds[t][k] = IF k <= a THEN "seturl" ELSE "fetch"
       /\ a \in 1..maxRetries /\ b \in 0..maxRetries
       /\ Len(cmds[t]) <= 2 * maxRetries
       /\ b > 0 =>
            /\ results[t][a] = "ok"
            /\ \A k \in 1..(a - 1) : results[t][k] = "fail"
       /\ (b = 0 /\ Len(results[t]) = maxRetries
             /\ results[t][maxRetries] = "fail") => tpc[t] = "failed"
       /\ (tpc[t] = "failed" /\ b = 0) =>
            /\ a = maxRetries
            /\ \A k \in 1..a : results[t][k] = "fail"
       /\ tpc[t] = "fetch" => retry[t].i = b

\* set-url succeeded on its last attempt and fetch then used all of its own.
C15_Witness ==
  \E t \in Tasks :
    /\ maxRetries = MaxAttempts
    /\ tpc[t] = "failed"
    /\ Count(cmds[t], "seturl") = MaxAttempts
    /\ Count(cmds[t], "fetch") = MaxAttempts

\* What a step of getAllRepositories does to the page being fetched.
C16_Step ==
  pc = "listing" =>
    /\ lretry.st = "sleep" =>
         /\ url' = url /\ acc' = acc
         /\ lretry'.st = "try" /\ lretry'.i = lretry.i + 1
         /\ lretry'.i <= maxRetries
    /\ http' \in HttpFailures => url' = url /\ acc' = acc
    /\ url' # url =>
         /\ http' \notin HttpFailures
         /\ url' = IF url < Len(pages) THEN url + 1 ELSE 0
         /\ acc' = acc \o pages[url]
         /\ url' # 0 => lretry' = [i |-> 1, err |-> "none", st |-> "try",
                                   log |-> << <<"call", 1>> >>]

\* C16: while listing, a retry after a failed page request asks for the same
\* page again with the accumulated descriptors untouched; the page being
\* fetched changes only when its request succeeds, and then to the following
\* page (never back to an earlier one), the page's descriptors being appended
\* to those already held and the new page starting with attempt 1 of its own
\* maxRetries attempts.
C16_RetryPerPage == [][C16_Step]_vars

\* The second page failed twice and then arrived; the first page's
\* descriptors are still there.
C16_Witness ==
  /\ lretry.st = "returned" /\ lretry.i = 3 /\ maxRetries = 3
  /\ Len(pages) = 2 /\ pages[1] # << >>
  /\ repos = pages[1] \o pages[2]

\* The children of task t that have been spawned and whose 'close' has not
\* arrived: the latest one, and those killed by earlier timeouts.
Live(t) ==
  stale[t] + (IF child[t] \in {"running", "killed"} THEN 1 ELSE 0)

\* C17: a task has at most one child that has not terminated; a child killed
\* on timeout has closed before the retry spawns the next one.
C17_OneLiveChild == \A t \in Tasks : Live(t) <= 1

\* The most git subprocesses a call may spawn in the branch it took.
SpawnBudget(t) ==
  IF cmds[t] # << >> /\ cmds[t][1] = "clone" THEN maxRetries
                                             ELSE 2 * maxRetries

\* C18: once the calls of backupRepository have been started, a state follows
\* in which every one of them has settled (a settled call stays settled), with
\* no assumption on when or whether their children close; and a call never
\* spawns more than maxRetries subprocesses in the clone branch nor more than
\* 2 * maxRetries in the update branch.
C18_CallSettles ==
  /\ [](\A t \in Tasks : Len(cmds[t]) <= SpawnBudget(t))
  /\ (Tasks # {}) ~> (\A t \in Tasks : Settled(t))

\* The child of the last attempt never closed: the timer ended the wait.
C18_Witness ==
  \E t \in Tasks :
    /\ Settled(t) /\ child[t] = "killed" /\ stale[t] = maxRetries - 1
    /\ maxRetries = MaxAttempts /\ Len(cmds[t]) = SpawnBudget(t)

\* How many times the withRetry call with trace log has invoked fn.
Calls(log) == Cardinality({k \in 1..Len(log) : log[k][1] = "call"})

\* C19: every run exits, once, with code 0 or 1; listing leaves its loop on
\* the first page that has no next (the last of the chain) and issues no
\* request after it; no page is requested more than maxRetries times.
C19_RunTerminates ==
  /\ <>(pc = "exited")
  /\ [](/\ exitCode \in {-1, 0, 1}
        /\ pc = "exited" <=> exitCode \in {0, 1}
        /\ Calls(lretry.log) <= maxRetries
        /\ url = 0 => lretry.st = "returned" /\ http = "ok")
  /\ [][/\ exitCode # -1 => UNCHANGED vars
        /\ (url' = 0 /\ url # 0) => url = Len(pages)
        /\ url = 0 => UNCHANGED listVars]_vars

\* Both ways out: after a listing that used every attempt on the last page.
C19_Witness ==
  /\ pc = "exited" /\ exitCode = 1 /\ url = 2
  /\ Calls(lretry.log) = maxRetries /\ maxRetries = MaxAttempts

====
